---- MODULE Spec2Model ----
(***************************************************************************)
(* promptline: the prompt line printed by main (src/main.rs), and the two  *)
(* repository probes it runs, get_git_info and get_mercurial_info.         *)
(*                                                                         *)
(* Text is a sequence of characters; a character is a one-character string *)
(* except EAcute, which stands for a character whose UTF-8 encoding takes  *)
(* two bytes.  Rust indexes a String by bytes, so a slice is computed on   *)
(* byte offsets.  A path is the record PathNew builds from its text.  The  *)
(* file system is a function from absolute paths (sequences of names) to   *)
(* entries; the directories and files a probe looks at are read from it.   *)
(***************************************************************************)
EXTENDS Integers, Sequences, FiniteSets, TLC

VARIABLES
    fs,            \* the file system: absolute path -> [kind, text]
    cwd,           \* the working directory: a sequence of names
    env,           \* what the environment answers to the other probes
    pc,            \* where the program is
    dir_iter,      \* get_git_info: the walk's cursor (an Option of a path)
    visited,       \* history: the directories the walk tested, in order
    git_dir,       \* get_git_info: the metadata directory (a path)
    head_content,  \* get_git_info: the text of HEAD, None before it is read
    refs_path,     \* get_git_info: the path after "ref: "
    commit_hash,   \* get_git_info: the text of the ref file, None before it is read
    short_hash,    \* get_git_info: commit_hash[..14]
    output,        \* get_git_info: the text before decoration
    opened,        \* history: the paths read_to_string was called on
    git_result,    \* what get_git_info returned
    hg_root,       \* get_mercurial_info: the walk's cursor
    hg_components, \* get_mercurial_info: the components pushed
    hg_output,     \* get_mercurial_info: the text before decoration
    hg_result,     \* what get_mercurial_info returned
    results,       \* main: the vec of the probes' results, in order
    printed,       \* do_print: what went to stdout
    logged         \* main: the probes whose error went to stderr

vars == <<fs, cwd, env, pc, dir_iter, visited, git_dir, head_content, refs_path,
          commit_hash, short_hash, output, opened, git_result, hg_root,
          hg_components, hg_output, hg_result, results, printed, logged>>

gitVars == <<dir_iter, visited, git_dir, head_content, refs_path, commit_hash,
             short_hash, output, opened, git_result>>

hgVars == <<hg_root, hg_components, hg_output, hg_result>>

(***************************************************************************)
(* Bounds                                                                  *)
(***************************************************************************)
\* The depth of the deepest directory below the file-system root.
MaxDepth == 2

(***************************************************************************)
(* Text                                                                    *)
(***************************************************************************)
\* A character that takes two bytes in UTF-8.
EAcute == "U+00E9"

Width(c) == IF c = EAcute THEN 2 ELSE 1

RECURSIVE ByteLen(_)
ByteLen(s) == IF s = <<>> THEN 0 ELSE Width(Head(s)) + ByteLen(Tail(s))

\* str::is_char_boundary: offset n is the start of a character or the end.
IsCharBoundary(s, n) == \E k \in 0..Len(s) : ByteLen(SubSeq(s, 1, k)) = n

\* &s[..n]: the characters in the first n bytes; a panic when n is past the
\* end or inside a character.
SliceTo(s, n) ==
    IF IsCharBoundary(s, n)
    THEN [ok |-> TRUE,
          v  |-> SubSeq(s, 1, CHOOSE k \in 0..Len(s) : ByteLen(SubSeq(s, 1, k)) = n)]
    ELSE [ok |-> FALSE, v |-> <<>>]

IsWs(c) == c \in {" ", "\n", "\t", "\r"}

TrimStart(s) ==
    IF \A i \in 1..Len(s) : IsWs(s[i]) THEN <<>>
    ELSE SubSeq(s, CHOOSE i \in 1..Len(s) :
                       ~IsWs(s[i]) /\ \A j \in 1..(i - 1) : IsWs(s[j]), Len(s))

TrimEnd(s) ==
    IF \A i \in 1..Len(s) : IsWs(s[i]) THEN <<>>
    ELSE SubSeq(s, 1, CHOOSE i \in 1..Len(s) :
                          ~IsWs(s[i]) /\ \A j \in (i + 1)..Len(s) : IsWs(s[j]))

\* str::trim
Trim(s) == TrimEnd(TrimStart(s))

None == [some |-> FALSE, v |-> <<>>]
Some(x) == [some |-> TRUE, v |-> x]

StartsWith(s, p) == Len(s) >= Len(p) /\ SubSeq(s, 1, Len(p)) = p

\* A strip_prefix that compares without regard to the case of the letters.
Lower(c) == IF c = "G" THEN "g" ELSE IF c = "R" THEN "r" ELSE c
StripPrefixAnyCase(s, p) ==
    IF Len(s) >= Len(p) /\ \A i \in 1..Len(p) : Lower(s[i]) = Lower(p[i])
    THEN Some(SubSeq(s, Len(p) + 1, Len(s))) ELSE None

\* str::strip_prefix
StripPrefix(s, p) ==
    IF StartsWith(s, p) THEN Some(SubSeq(s, Len(p) + 1, Len(s))) ELSE None

PREFIX == <<"g", "i", "t", "d", "i", "r", ":", " ">>
REF_PREFIX == <<"r", "e", "f", ":", " ">>
\* The width of the short hash: the 14 of commit_hash[..14] and head_content[..14].
ShortLen == 14

(***************************************************************************)
(* Paths                                                                   *)
(***************************************************************************)
DotDot == <<".", ".">>
Dot == <<".">>
DotGit == <<".", "g", "i", "t">>
DotHg == <<".", "h", "g">>
HeadName == <<"H", "E", "A", "D">>

\* The pieces of s between its "/" characters, empty pieces included.
RECURSIVE Split(_, _)
Split(s, acc) ==
    IF s = <<>> THEN <<acc>>
    ELSE IF Head(s) = "/" THEN <<acc>> \o Split(Tail(s), <<>>)
    ELSE Split(Tail(s), Append(acc, Head(s)))

RECURSIVE DropDots(_)
DropDots(cs) ==
    IF cs = <<>> THEN <<>>
    ELSE IF Head(cs) = Dot THEN DropDots(Tail(cs))
    ELSE <<Head(cs)>> \o DropDots(Tail(cs))

RECURSIVE DropEmpty(_)
DropEmpty(cs) ==
    IF cs = <<>> THEN <<>>
    ELSE IF Head(cs) = <<>> THEN DropEmpty(Tail(cs))
    ELSE <<Head(cs)>> \o DropEmpty(Tail(cs))

\* Path::new, as Path::components reads it: repeated separators and "." are
\* dropped, except a "." that starts a relative path; ".." is kept.  trail
\* says that the text ends in "/" or "/.", which the system resolves only
\* when the path names a directory.
PathNew(s) ==
    LET abs   == s # <<>> /\ s[1] = "/"
        parts == DropEmpty(Split(s, <<>>))
        lead  == ~abs /\ parts # <<>> /\ Head(parts) = Dot
        n     == Len(s)
    IN  [abs   |-> abs,
         comps |-> IF lead THEN <<Dot>> \o DropDots(Tail(parts)) ELSE DropDots(parts),
         trail |-> n > 0 /\ (s[n] = "/" \/ (n > 1 /\ s[n] = "." /\ s[n - 1] = "/"))]

\* A canonical absolute directory.
AbsDir(names) == [abs |-> TRUE, comps |-> names, trail |-> FALSE]

\* Path::join: an absolute p replaces base; an empty p adds a trailing "/".
Join(base, p) ==
    IF p.abs THEN p
    ELSE [abs   |-> base.abs,
          comps |-> IF base.comps = <<>> /\ ~base.abs
                    THEN p.comps ELSE base.comps \o DropDots(p.comps),
          trail |-> IF p.comps = <<>> THEN TRUE ELSE p.trail]

\* Path::join with a single plain name.
JoinName(base, name) ==
    Join(base, [abs |-> FALSE, comps |-> <<name>>, trail |-> FALSE])

\* A parent that climbs two levels at a time where it can.
ParentSkip(p) ==
    IF p.comps = <<>> THEN None
    ELSE Some([p EXCEPT !.comps = SubSeq(p.comps, 1, IF Len(p.comps) >= 2
                                                        THEN Len(p.comps) - 2 ELSE 0)])

\* Path::parent of a canonical directory: None at the root.
Parent(p) ==
    IF p.comps = <<>> THEN None
    ELSE Some([p EXCEPT !.comps = SubSeq(p.comps, 1, Len(p.comps) - 1)])

\* Path::file_name: the last component when it is a plain name.
FileName(p) ==
    IF p.comps = <<>> THEN None
    ELSE LET last == p.comps[Len(p.comps)]
         IN  IF last = DotDot \/ last = Dot THEN None ELSE Some(last)

(***************************************************************************)
(* The file system, as the calls of std::fs see it                         *)
(***************************************************************************)
NoEntry == [kind |-> "none", text |-> <<>>]
DirEntry == [kind |-> "dir", text |-> <<>>]
\* A regular file that read_to_string reads.
TextFile(t) == [kind |-> "file", text |-> t]
\* A regular file that cannot be read as text (no permission, not UTF-8).
BadFile == [kind |-> "bad", text |-> <<>>]

IsDirAt(at) == at = <<>> \/ (at \in DOMAIN fs /\ fs[at].kind = "dir")

\* Name resolution: each component is looked up in the directory reached so
\* far; ".." goes to its parent, and the root is its own parent.
RECURSIVE Walk(_, _)
Walk(at, rest) ==
    IF rest = <<>> THEN [ok |-> TRUE, at |-> at]
    ELSE IF ~IsDirAt(at) THEN [ok |-> FALSE, at |-> at]
    ELSE LET c == Head(rest)
         IN  IF c = DotDot
             THEN Walk(IF at = <<>> THEN <<>> ELSE SubSeq(at, 1, Len(at) - 1), Tail(rest))
             ELSE IF c = Dot THEN Walk(at, Tail(rest))
             ELSE Walk(Append(at, c), Tail(rest))

\* The absolute place a path names: a relative path starts at the working
\* directory of the process.
Resolve(p) == Walk(IF p.abs THEN <<>> ELSE cwd, p.comps)

\* The entry a path names, NoEntry when there is none.
Stat(p) ==
    LET r == Resolve(p)
    IN  IF ~r.ok THEN NoEntry
        ELSE IF r.at = <<>> THEN DirEntry
        ELSE IF r.at \notin DOMAIN fs THEN NoEntry
        ELSE IF p.trail /\ fs[r.at].kind # "dir" THEN NoEntry
        ELSE fs[r.at]

\* An existence test of the directory in place of the entry in it: the
\* test of dir where dir.join(".git") was meant.
ExistsOfDir(p) ==
    p.comps = <<>> \/ Stat([p EXCEPT !.comps = SubSeq(p.comps, 1, Len(p.comps) - 1)]).kind # "none"

\* Path::exists
Exists(p) == Stat(p).kind # "none"

\* Path::is_file
IsFile(p) == Stat(p).kind \in {"file", "bad"}

\* fs::read_to_string: Ok(text) of a readable regular file, else Err.
ReadToString(p) ==
    LET e == Stat(p)
    IN  [ok |-> e.kind = "file", v |-> IF e.kind = "file" THEN e.text ELSE <<>>]

(***************************************************************************)
(* DecoratedString                                                         *)
(***************************************************************************)
\* Color::to_ansi
ColorToAnsi(color) ==
    CASE color = "Red" -> "31" [] color = "Green" -> "32" [] color = "Yellow" -> "33"
      [] color = "Blue" -> "34" [] color = "Magenta" -> "35" [] color = "Cyan" -> "36"
      [] color = "White" -> "37"

Default(s) == [tag |-> "Default", s |-> s]
Bold(d) == [tag |-> "Bold", inner |-> d]
Colored(d, color) == [tag |-> "Colored", inner |-> d, color |-> color]

\* DecoratedString::to_ansi; an escape sequence is one element of the text.
RECURSIVE ToAnsi(_)
ToAnsi(d) ==
    CASE d.tag = "Bold" -> <<"ESC[1m">> \o ToAnsi(d.inner) \o <<"ESC[22m">>
      [] d.tag = "Colored" ->
            <<"ESC[" \o ColorToAnsi(d.color) \o "m">> \o ToAnsi(d.inner) \o <<"ESC[39m">>
      [] d.tag = "Default" -> d.s

\* DecoratedString::new(output).colored(Color::Green).bold().to_ansi()
GreenBold(s) == ToAnsi(Bold(Colored(Default(s), "Green")))

Ok(text) == [tag |-> "Ok", text |-> text]
Err(e) == [tag |-> e, text |-> <<>>]
Pending == [tag |-> "pending", text |-> <<>>]
\* The process aborted inside the probe: nothing was returned.
Panic == [tag |-> "panic", text |-> <<>>]

(***************************************************************************)
(* The file systems the probes are run on                                  *)
(***************************************************************************)
\* The names of the directories on the way down from the root.
ChainNames == <<"p", "q", "r", "s", "t", "u">>
\* The directory at depth d.
Dir(d) == [i \in 1..d |-> <<ChainNames[i]>>]

Hex16 == <<"0", "1", "2", "3", "4", "5", "6", "7", "8", "9", "a", "b", "c", "d", "e", "f">>
\* The first character of the ids stored in the repository at depth d, and
\* in the metadata directory /x: it tells the repositories apart.
TagChars == <<"a", "b", "c", "d", "e", "7">>
DepthTag(d) == TagChars[d + 1]
AbsTag == "f"
\* A revision id of n characters.
Id(tag, n) == <<tag>> \o SubSeq(Hex16, 2, n)
NL == <<"\n">>

RefsName == <<"r", "e", "f", "s">>
HeadsName == <<"h", "e", "a", "d", "s">>
MainName == <<"m", "a", "i", "n">>
GdName == <<"g", "d">>
XName == <<"x">>
RefsHeadsMain == RefsName \o <<"/">> \o HeadsName \o <<"/">> \o MainName

MarkerKinds == {"none", "dir", "file"}
GitFileCases == {"abs", "rel", "upper", "nospace", "empty", "unreadable"}
HeadCases == {"detached16", "detached14", "detached13nl", "detached5", "detachedEmpty",
              "detachedLeadWs", "detachedWide", "detachedSplit", "noHead", "badHead",
              "symMain", "symNoRef", "symBadRef", "symShort", "symWide", "symSplit",
              "symEmptyPath", "symDotDot", "symNoSpace"}

\* The entry of a .git that is a file.
GitFileEntry(g) ==
    CASE g = "abs" -> TextFile(PREFIX \o <<"/">> \o XName \o NL)
      [] g = "rel" -> TextFile(PREFIX \o GdName \o NL)
      [] g = "upper" -> TextFile(<<"G", "i", "t", "d", "i", "r", ":", " ", "/">> \o XName \o NL)
      [] g = "nospace" -> TextFile(<<"g", "i", "t", "d", "i", "r", ":", "/">> \o XName \o NL)
      [] g = "empty" -> TextFile(<<>>)
      [] g = "unreadable" -> BadFile

\* The text of HEAD in case h (of a readable HEAD).
HeadText(h, tag) ==
    CASE h = "detached16" -> Id(tag, 16) \o NL
      [] h = "detached14" -> Id(tag, 14)
      [] h = "detached13nl" -> Id(tag, 13) \o NL
      [] h = "detached5" -> Id(tag, 5) \o NL
      [] h = "detachedEmpty" -> <<>>
      [] h = "detachedLeadWs" -> <<" ">> \o Id(tag, 16) \o NL
      [] h = "detachedWide" -> <<tag, EAcute>> \o SubSeq(Hex16, 3, 16) \o NL
      [] h = "detachedSplit" -> Id(tag, 13) \o <<EAcute, "e", "f">> \o NL
      [] h = "symEmptyPath" -> REF_PREFIX \o NL
      [] h = "symDotDot" -> REF_PREFIX \o RefsName \o <<"/">> \o HeadsName \o <<"/", ".", ".">> \o NL
      [] h = "symNoSpace" -> <<"r", "e", "f", ":">> \o RefsHeadsMain \o NL
      [] OTHER -> REF_PREFIX \o RefsHeadsMain \o NL

\* The entry of refs/heads/main in case h, NoEntry when there is no such file.
RefEntry(h, tag) ==
    CASE h \in {"symMain", "symEmptyPath", "symDotDot", "symNoSpace"} ->
            TextFile(Id(tag, 16) \o NL)
      [] h = "symBadRef" -> BadFile
      [] h = "symShort" -> TextFile(Id(tag, 5) \o NL)
      [] h = "symWide" -> TextFile(<<tag, EAcute>> \o SubSeq(Hex16, 3, 16) \o NL)
      [] h = "symSplit" -> TextFile(Id(tag, 13) \o <<EAcute, "e", "f">> \o NL)
      [] OTHER -> NoEntry

\* The files of a metadata directory at the absolute path base, as pairs
\* <<path, entry>>.
MetaDir(base, h, tag) ==
    {<<base, DirEntry>>,
     <<Append(base, RefsName), DirEntry>>,
     <<base \o <<RefsName, HeadsName>>, DirEntry>>}
    \cup (IF h = "noHead" THEN {}
          ELSE {<<Append(base, HeadName),
                  IF h = "badHead" THEN BadFile ELSE TextFile(HeadText(h, tag))>>})
    \cup (IF RefEntry(h, tag) = NoEntry THEN {}
          ELSE {<<base \o <<RefsName, HeadsName, MainName>>, RefEntry(h, tag)>>})

\* The files of the directory at depth d whose .git is of kind k.
RepoAt(d, k, g, h) ==
    {<<Dir(d), DirEntry>>}
    \cup (CASE k = "dir" -> MetaDir(Append(Dir(d), DotGit), h, DepthTag(d))
            [] k = "file" -> {<<Append(Dir(d), DotGit), GitFileEntry(g)>>}
                             \cup MetaDir(Append(Dir(d), GdName), h, DepthTag(d))
            [] OTHER -> {})

\* The function of a set of <<path, entry>> pairs.
FsOf(S) == [p \in {e[1] : e \in S} |-> (CHOOSE e \in S : e[1] = p)[2]]

\* The git side of a file system: the chain of directories with the .git
\* markers m gives them, and the metadata directory /x.
GitFiles(m, g, h) ==
    (UNION {RepoAt(d, m[d], g, h) : d \in 0..MaxDepth})
    \cup MetaDir(<<XName>>, h, AbsTag)

(***************************************************************************)
(* get_git_info                                                            *)
(***************************************************************************)
GitReturn(r) == git_result' = r /\ pc' = "git_ret"

\* let cwd = env::current_dir()...; let canonical_cwd = fs::canonicalize(cwd)...
GitStart ==
    /\ pc = "git_start"
    /\ \E o \in {"ok", "NoCwd", "CanonicalCwd"} :
          IF o = "ok"
          THEN /\ dir_iter' = Some(AbsDir(cwd))
               /\ pc' = "git_walk"
               /\ UNCHANGED git_result
          ELSE /\ GitReturn(Err(o))
               /\ UNCHANGED dir_iter
    /\ UNCHANGED <<fs, cwd, env, visited, git_dir, head_content, refs_path, commit_hash,
                   short_hash, output, opened, hgVars, results, printed, logged>>

\* One test of the loop "while let Some(dir) = dir_iter".
GitWalkStep ==
    /\ pc = "git_walk"
    /\ IF ~dir_iter.some
       THEN pc' = "git_locate" /\ UNCHANGED <<dir_iter, visited>>
       ELSE /\ visited' = Append(visited, dir_iter.v.comps)
            /\ IF Exists(JoinName(dir_iter.v, DotGit))
               THEN pc' = "git_locate" /\ UNCHANGED dir_iter
               ELSE pc' = "git_walk" /\ dir_iter' = Parent(dir_iter.v)
    /\ UNCHANGED <<fs, cwd, env, git_dir, head_content, refs_path, commit_hash,
                   short_hash, output, opened, git_result, hgVars, results, printed, logged>>

\* let repo = dir_iter.ok_or(NotGitRepo)?; and the follow of a .git file.
GitLocate ==
    /\ pc = "git_locate"
    /\ IF ~dir_iter.some
       THEN GitReturn(Err("NotGitRepo")) /\ UNCHANGED <<git_dir, opened>>
       ELSE LET marker == JoinName(dir_iter.v, DotGit)
                read   == ReadToString(marker)
                v      == StripPrefix(read.v, PREFIX)
            IN  IF ~IsFile(marker)
                THEN /\ git_dir' = marker
                     /\ pc' = "git_head"
                     /\ UNCHANGED <<opened, git_result>>
                ELSE /\ opened' = Append(opened, marker)
                     /\ IF ~read.ok
                        THEN GitReturn(Err("ReadGitFile")) /\ UNCHANGED git_dir
                        ELSE IF v.some
                        THEN /\ git_dir' = PathNew(Trim(v.v))
                             /\ pc' = "git_head"
                             /\ UNCHANGED git_result
                        ELSE GitReturn(Err("UnexpectedGitContent")) /\ UNCHANGED git_dir
    /\ UNCHANGED <<fs, cwd, env, dir_iter, visited, head_content, refs_path, commit_hash,
                   short_hash, output, hgVars, results, printed, logged>>

\* let head_content = fs::read_to_string(git_dir.join("HEAD"))...
GitReadHead ==
    /\ pc = "git_head"
    /\ LET p == JoinName(git_dir, HeadName)
           read == ReadToString(p)
       IN  /\ opened' = Append(opened, p)
           /\ IF read.ok
              THEN head_content' = Some(read.v) /\ pc' = "git_parse" /\ UNCHANGED git_result
              ELSE GitReturn(Err("ReadHead")) /\ UNCHANGED head_content
    /\ UNCHANGED <<fs, cwd, env, dir_iter, visited, git_dir, refs_path, commit_hash,
                   short_hash, output, hgVars, results, printed, logged>>

\* match head_content.strip_prefix(REF_PREFIX): the path of the ref, or
\* head_content[..14].
GitParseHead ==
    /\ pc = "git_parse"
    /\ LET v == StripPrefix(head_content.v, REF_PREFIX)
           slice == SliceTo(head_content.v, ShortLen)
       IN  IF v.some
           THEN /\ refs_path' = Some(PathNew(Trim(v.v)))
                /\ pc' = "git_ref"
                /\ UNCHANGED <<output, git_result>>
           ELSE IF slice.ok
           THEN /\ output' = slice.v
                /\ pc' = "git_decorate"
                /\ UNCHANGED <<refs_path, git_result>>
           ELSE /\ pc' = "panicked"
                /\ git_result' = Panic
                /\ UNCHANGED <<refs_path, output>>
    /\ UNCHANGED <<fs, cwd, env, dir_iter, visited, git_dir, head_content, commit_hash,
                   short_hash, opened, hgVars, results, printed, logged>>

\* let commit_hash = fs::read_to_string(git_dir.join(refs_path))...
GitReadRef ==
    /\ pc = "git_ref"
    /\ LET p == Join(git_dir, refs_path.v)
           read == ReadToString(p)
       IN  /\ opened' = Append(opened, p)
           /\ IF read.ok
              THEN commit_hash' = Some(read.v) /\ pc' = "git_slice" /\ UNCHANGED git_result
              ELSE GitReturn(Err("ReadRef")) /\ UNCHANGED commit_hash
    /\ UNCHANGED <<fs, cwd, env, dir_iter, visited, git_dir, head_content, refs_path,
                   short_hash, output, hgVars, results, printed, logged>>

\* let short_hash = &commit_hash[..14];
GitSliceRef ==
    /\ pc = "git_slice"
    /\ LET slice == SliceTo(commit_hash.v, ShortLen)
       IN  IF slice.ok
           THEN short_hash' = slice.v /\ pc' = "git_name" /\ UNCHANGED git_result
           ELSE pc' = "panicked" /\ git_result' = Panic /\ UNCHANGED short_hash
    /\ UNCHANGED <<fs, cwd, env, dir_iter, visited, git_dir, head_content, refs_path,
                   commit_hash, output, opened, hgVars, results, printed, logged>>

\* let ref_name = refs_path.file_name().ok_or(NoRefName)?...;
\* format!("{ref_name} {short_hash}")
GitRefName ==
    /\ pc = "git_name"
    /\ LET ref_name == FileName(refs_path.v)
       IN  IF ref_name.some
           THEN /\ output' = ref_name.v \o <<" ">> \o short_hash
                /\ pc' = "git_decorate"
                /\ UNCHANGED git_result
           ELSE GitReturn(Err("NoRefName")) /\ UNCHANGED output
    /\ UNCHANGED <<fs, cwd, env, dir_iter, visited, git_dir, head_content, refs_path,
                   commit_hash, short_hash, opened, hgVars, results, printed, logged>>

\* Ok(DecoratedString::new(output).colored(Color::Green).bold().to_ansi())
GitDecorate ==
    /\ pc = "git_decorate"
    /\ GitReturn(Ok(GreenBold(output)))
    /\ UNCHANGED <<fs, cwd, env, dir_iter, visited, git_dir, head_content, refs_path,
                   commit_hash, short_hash, output, opened, hgVars, results, printed, logged>>

GitNext ==
    \/ GitStart
    \/ GitWalkStep
    \/ GitLocate
    \/ GitReadHead
    \/ GitParseHead
    \/ GitReadRef
    \/ GitSliceRef
    \/ GitRefName
    \/ GitDecorate

\* The probes' variables before a probe has run.
ProbesIdle ==
    /\ dir_iter = None
    /\ visited = <<>>
    /\ git_dir = AbsDir(<<>>)
    /\ head_content = None
    /\ refs_path = None
    /\ commit_hash = None
    /\ short_hash = <<>>
    /\ output = <<>>
    /\ opened = <<>>
    /\ git_result = Pending
    /\ hg_root = <<>>
    /\ hg_components = <<>>
    /\ hg_output = <<>>
    /\ hg_result = Pending
    /\ results = <<>>
    /\ printed = <<>>
    /\ logged = <<>>

\* The environment of a probe run on its own: the probes read none of it.
NoEnv == [docker |-> FALSE, user |-> "NoUser", hostname |-> FALSE, pwd |-> FALSE,
          shell |-> "unset", status |-> "none", conda |-> FALSE, nix |-> "unset",
          debug |-> FALSE]

\* get_git_info called in a directory of any of the file systems.
GitInit ==
    /\ \E c \in 0..MaxDepth, m \in [0..MaxDepth -> MarkerKinds],
          g \in GitFileCases, h \in HeadCases :
          /\ fs = FsOf(GitFiles(m, g, h))
          /\ cwd = Dir(c)
    /\ env = NoEnv
    /\ pc = "git_start"
    /\ ProbesIdle

SpecGit == GitInit /\ [][GitNext]_vars

(***************************************************************************)
(* get_mercurial_info                                                      *)
(***************************************************************************)
BookmarksName == <<"b", "o", "o", "k", "m", "a", "r", "k", "s", ".",
                   "c", "u", "r", "r", "e", "n", "t">>
BranchName == <<"b", "r", "a", "n", "c", "h">>
DirstateName == <<"d", "i", "r", "s", "t", "a", "t", "e">>

BookmarkCases == {"absent", "empty", "blank", "name", "unreadable"}
BranchCases == {"absent", "empty", "name"}
DirstateCases == {"absent", "empty", "short", "long", "directory"}

\* The files of a Mercurial repository at depth d, as <<path, entry>> pairs.
\* The text of dirstate is a sequence of bytes.
HgRepoAt(d, b, br, ds) ==
    LET hg == Append(Dir(d), DotHg)
    IN  {<<Dir(d), DirEntry>>, <<hg, DirEntry>>}
        \cup (CASE b = "empty" -> {<<Append(hg, BookmarksName), TextFile(<<>>)>>}
                [] b = "blank" -> {<<Append(hg, BookmarksName), TextFile(<<" ", "\n">>)>>}
                [] b = "name" ->
                    {<<Append(hg, BookmarksName), TextFile(<<"b", DepthTag(d), "\n">>)>>}
                [] b = "unreadable" -> {<<Append(hg, BookmarksName), BadFile>>}
                [] OTHER -> {})
        \cup (CASE br = "empty" -> {<<Append(hg, BranchName), TextFile(<<>>)>>}
                [] br = "name" ->
                    {<<Append(hg, BranchName), TextFile(<<"d", "e", "v", "\n">>)>>}
                [] OTHER -> {})
        \cup (CASE ds = "empty" -> {<<Append(hg, DirstateName), TextFile(<<>>)>>}
                [] ds = "short" -> {<<Append(hg, DirstateName), TextFile(<<0, 171>>)>>}
                [] ds = "long" ->
                    {<<Append(hg, DirstateName),
                       TextFile(<<1, 35, 69, 103, 137, 171, 205>>)>>}
                [] ds = "directory" -> {<<Append(hg, DirstateName), DirEntry>>}
                [] OTHER -> {})

\* The Mercurial side of a file system: a repository at each depth of H.
HgFiles(H, b, br, ds) ==
    UNION {IF d \in H THEN HgRepoAt(d, b, br, ds) ELSE {<<Dir(d), DirEntry>>} :
           d \in 0..MaxDepth}

\* format!("{x:02x}")
Hex2(x) == <<Hex16[(x \div 16) + 1], Hex16[(x % 16) + 1]>>

RECURSIVE HexAll(_)
HexAll(bytes) == IF bytes = <<>> THEN <<>> ELSE Hex2(Head(bytes)) \o HexAll(Tail(bytes))

\* File::open(..).iter().flat_map(|f| f.bytes()).take(6).filter_map(|x| x.ok())
\* .map(|x| format!("{x:02x}")).collect(): the hex of the first 6 bytes of a
\* regular file; nothing when the open fails or every read fails.
DirstateHex(p) ==
    LET e == Stat(p)
    IN  IF e.kind = "file"
        THEN HexAll(SubSeq(e.text, 1, IF Len(e.text) < 6 THEN Len(e.text) ELSE 6))
        ELSE <<>>

\* maybe_push_file: the components with the trimmed text of p pushed, when p
\* can be read.
MaybePushFile(components, p) ==
    LET read == ReadToString(p)
    IN  IF read.ok THEN Append(components, Trim(read.v)) ELSE components

\* The loop over hg_components.iter().enumerate() from index i on.
RECURSIVE HgJoin(_, _, _)
HgJoin(components, i, out) ==
    IF i > Len(components) THEN out
    ELSE IF components[i] = <<>> THEN HgJoin(components, i + 1, out)
    ELSE HgJoin(components, i + 1,
                (IF i # 1 THEN Append(out, " ") ELSE out) \o components[i])

HgReturn(r) == hg_result' = r /\ pc' = "hg_ret"

\* let mut hg_root = env::current_dir().map_err(HgError::NoCwd)?;
HgStart ==
    /\ pc = "hg_start"
    /\ \E o \in {"ok", "NoCwd"} :
          IF o = "ok"
          THEN hg_root' = cwd /\ pc' = "hg_walk" /\ UNCHANGED hg_result
          ELSE HgReturn(Err(o)) /\ UNCHANGED hg_root
    /\ UNCHANGED <<fs, cwd, env, gitVars, hg_components, hg_output, results, printed, logged>>

\* One turn of the loop: break on .hg, else pop, NotHg when there is no parent.
HgWalkStep ==
    /\ pc = "hg_walk"
    /\ IF Exists(JoinName(AbsDir(hg_root), DotHg))
       THEN pc' = "hg_files" /\ UNCHANGED <<hg_root, hg_result>>
       ELSE IF hg_root = <<>>
       THEN HgReturn(Err("NotHg")) /\ UNCHANGED hg_root
       ELSE /\ hg_root' = SubSeq(hg_root, 1, Len(hg_root) - 1)
            /\ pc' = "hg_walk"
            /\ UNCHANGED hg_result
    /\ UNCHANGED <<fs, cwd, env, gitVars, hg_components, hg_output, results, printed, logged>>

\* The two maybe_push_file calls and the push of the dirstate's hex.
HgReadFiles ==
    /\ pc = "hg_files"
    /\ LET hg == JoinName(AbsDir(hg_root), DotHg)
           c1 == MaybePushFile(<<>>, Join(AbsDir(hg_root), JoinName(hg, BookmarksName)))
           c2 == MaybePushFile(c1, Join(AbsDir(hg_root), JoinName(hg, BranchName)))
       IN  hg_components' = Append(c2, DirstateHex(JoinName(hg, DirstateName)))
    /\ pc' = "hg_join"
    /\ UNCHANGED <<fs, cwd, env, gitVars, hg_root, hg_output, hg_result, results, printed, logged>>

\* The join loop and the return: plain when empty, green and bold otherwise.
HgFormat ==
    /\ pc = "hg_join"
    /\ hg_output' = HgJoin(hg_components, 1, <<>>)
    /\ HgReturn(IF hg_output' = <<>> THEN Ok(<<>>) ELSE Ok(GreenBold(hg_output')))
    /\ UNCHANGED <<fs, cwd, env, gitVars, hg_root, hg_components, results, printed, logged>>

HgNext ==
    \/ HgStart
    \/ HgWalkStep
    \/ HgReadFiles
    \/ HgFormat

\* get_mercurial_info called in a directory of any of the file systems.
HgInit ==
    /\ \E c \in 0..MaxDepth, H \in SUBSET (0..MaxDepth), b \in BookmarkCases,
          br \in BranchCases, ds \in DirstateCases :
          /\ fs = FsOf(HgFiles(H, b, br, ds))
          /\ cwd = Dir(c)
    /\ env = NoEnv
    /\ pc = "hg_start"
    /\ ProbesIdle

SpecHg == HgInit /\ [][HgNext]_vars

(***************************************************************************)
(* main and do_print                                                       *)
(***************************************************************************)
\* The environments main is run in: /.dockerenv, the user of the uid, the
\* host name, PWD, SHELL, the first argument, CONDA_DEFAULT_ENV, IN_NIX_SHELL
\* and name, DEBUG_PROMPTLINE.
Envs ==
    {[docker |-> TRUE, user |-> "root", hostname |-> TRUE, pwd |-> TRUE,
      shell |-> "bash", status |-> "0", conda |-> TRUE, nix |-> "named", debug |-> TRUE],
     [docker |-> FALSE, user |-> "user", hostname |-> TRUE, pwd |-> TRUE,
      shell |-> "noname", status |-> "1", conda |-> FALSE, nix |-> "unset", debug |-> FALSE],
     [docker |-> FALSE, user |-> "NoUser", hostname |-> FALSE, pwd |-> FALSE,
      shell |-> "unset", status |-> "none", conda |-> FALSE, nix |-> "anon",
      debug |-> FALSE]}

\* A result of the vec of main: the probe it came from and what it returned.
Probed(name, r) == [probe |-> name, tag |-> r.tag, text |-> r.text]

\* get_time
GetTime == Ok(ToAnsi(Colored(Bold(Default(<<"H", "H", ":", "M", "M">>)), "Cyan")))

\* get_docker_env
GetDockerEnv == IF env.docker THEN Ok(<<"whale">>) ELSE Err("NotDockerContainer")

\* get_user
GetUser ==
    CASE env.user = "root" -> Ok(ToAnsi(Bold(Colored(Default(<<"r", "o", "o", "t">>), "Red"))))
      [] env.user = "user" -> Ok(ToAnsi(Bold(Colored(Default(<<"m", "e">>), "Magenta"))))
      [] OTHER -> Err(env.user)

\* get_hostname
GetHostname == IF env.hostname THEN Ok(GreenBold(<<"h", "o", "s", "t">>)) ELSE Err("GetHostname")

\* get_cwd
GetCwd ==
    IF env.pwd THEN Ok(ToAnsi(Bold(Colored(Default(<<"~">>), "Blue"))))
    ELSE Ok(ToAnsi(Bold(Colored(Default(<<"!", "!", "!">>), "Red"))))

\* get_shell
GetShell ==
    LET shell == IF env.shell = "bash" THEN PathNew(<<"/", "b", "i", "n", "/", "s", "h">>)
                 ELSE PathNew(<<"/">>)
    IN  IF env.shell = "unset" THEN Err("EnvNotSet")
        ELSE IF FileName(shell).some THEN Ok(ToAnsi(Bold(Default(FileName(shell).v))))
        ELSE Err("NoShellName")

\* get_status
GetStatus ==
    CASE env.status = "none" -> Err("NoExitStatus")
      [] env.status = "0" -> Ok(GreenBold(<<"0">>))
      [] OTHER -> Ok(ToAnsi(Bold(Colored(Default(<<env.status>>), "Red"))))

\* get_conda_info
GetCondaInfo ==
    IF env.conda THEN Ok(ToAnsi(Bold(Default(<<"snake", " ", "b", "a", "s", "e">>))))
    ELSE Err("NoCondaEnv")

\* show_nix_shell
ShowNixShell ==
    CASE env.nix = "unset" -> Err("NotInNixShell")
      [] env.nix = "named" -> Ok(ToAnsi(Bold(Default(<<"n", "i", "x", ":", " ", "d", "e", "v">>))))
      [] OTHER -> Ok(ToAnsi(Bold(Default(<<"n", "i", "x", ":", " ", "n", "i", "x", "-",
                                           "s", "h", "e", "l", "l">>))))

\* The elements of the vec of main are evaluated in this order.
ProbeOrder == <<"time", "docker", "user", "hostname", "cwd", "shell", "status",
                "hg", "git", "conda", "nix">>

\* One element of the vec: the probe's result is pushed.
MainProbe(at, name, r, next) ==
    /\ pc = at
    /\ results' = Append(results, Probed(name, r))
    /\ pc' = next
    /\ UNCHANGED <<fs, cwd, env, gitVars, hgVars, printed, logged>>

MainTime == MainProbe("time", "time", GetTime, "docker")
MainDocker == MainProbe("docker", "docker", GetDockerEnv, "user")
MainUser == MainProbe("user", "user", GetUser, "hostname")
MainHostname == MainProbe("hostname", "hostname", GetHostname, "cwd")
MainCwd == MainProbe("cwd", "cwd", GetCwd, "shell")
MainShell == MainProbe("shell", "shell", GetShell, "status")
MainStatus == MainProbe("status", "status", GetStatus, "hg_start")
\* get_mercurial_info().map_err(MainError::Mercurial), once it has returned
MainHg == MainProbe("hg_ret", "hg", hg_result, "git_start")
\* get_git_info().map_err(MainError::Git), once it has returned
MainGit == MainProbe("git_ret", "git", git_result, "conda")
MainConda == MainProbe("conda", "conda", GetCondaInfo, "nix")
MainNix == MainProbe("nix", "nix", ShowNixShell, "print")

\* Vec::insert(i, x), i counted from 0.
Insert(v, i, x) == SubSeq(v, 1, i) \o <<x>> \o SubSeq(v, i + 1, Len(v))

LeftCap == <<"BOX_DR", "[">>
Separator == <<"]", "-", "[">>
RightCap == <<"]", "\n", "BOX_UR", ">", " ">>

\* for i in from..to: components.insert(2 * i, "]-[")
RECURSIVE InsertSeparators(_, _, _)
InsertSeparators(v, from, to) ==
    IF from > to THEN v ELSE InsertSeparators(Insert(v, 2 * from, Separator), from + 1, to)

RECURSIVE Concat(_)
Concat(v) == IF v = <<>> THEN <<>> ELSE Head(v) \o Concat(Tail(v))

\* do_print: what it writes to stdout.  The range 1..components.len() - 1
\* is taken once, after the first insert.
DoPrint(components) ==
    LET c1 == Insert(components, 0, LeftCap)
        c2 == InsertSeparators(c1, 1, Len(c1) - 2)
    IN  Concat(Append(c2, RightCap))

\* partition(Result::is_ok): the elements of r that are Ok (wantOk) or Err, in
\* order.
RECURSIVE Partition(_, _)
Partition(r, wantOk) ==
    IF r = <<>> THEN <<>>
    ELSE (IF (Head(r).tag = "Ok") = wantOk THEN <<Head(r)>> ELSE <<>>)
         \o Partition(Tail(r), wantOk)

\* The end of main: partition(Result::is_ok), the errors to stderr when
\* DEBUG_PROMPTLINE is 1, do_print(components).
MainPrint ==
    /\ pc = "print"
    /\ LET oks == Partition(results, TRUE)
           errors == Partition(results, FALSE)
       IN  /\ printed' = DoPrint([i \in 1..Len(oks) |-> oks[i].text])
           /\ logged' = IF env.debug THEN [i \in 1..Len(errors) |-> errors[i].probe]
                        ELSE <<>>
    /\ pc' = "done"
    /\ UNCHANGED <<fs, cwd, env, gitVars, hgVars, results>>

MainNext ==
    \/ MainTime
    \/ MainDocker
    \/ MainUser
    \/ MainHostname
    \/ MainCwd
    \/ MainShell
    \/ MainStatus
    \/ HgNext
    \/ MainHg
    \/ GitNext
    \/ MainGit
    \/ MainConda
    \/ MainNix
    \/ MainPrint

\* The file systems main is run on: at most one directory of the chain has a
\* .git, and at most the root has a .hg.
MainMarkers ==
    {m \in [0..MaxDepth -> MarkerKinds] :
        Cardinality({d \in 0..MaxDepth : m[d] # "none"}) <= 1}

MainInit ==
    /\ \E m \in MainMarkers, g \in {"abs", "upper"}, h \in HeadCases,
          H \in {{}, {0}}, b \in {"empty", "name"} :
          fs = FsOf(GitFiles(m, g, h) \cup HgFiles(H, b, "name", "long"))
    /\ cwd = Dir(MaxDepth)
    /\ env \in Envs
    /\ pc = "time"
    /\ ProbesIdle

Spec == MainInit /\ [][MainNext]_vars

(***************************************************************************)
(* What the properties speak of                                            *)
(***************************************************************************)
GitErrorTags == {"NoCwd", "CanonicalCwd", "ReadGitFile", "ReadHead", "NotGitRepo",
                 "UnexpectedGitContent", "ReadRef", "NoRefName"}

\* get_git_info has returned or has aborted the process.
GitEnded == git_result # Pending

\* The working directory was read and canonicalized.
CwdOk == git_result.tag \notin {"NoCwd", "CanonicalCwd"}

\* The ancestor k levels above the working directory.
Anc(k) == SubSeq(cwd, 1, Len(cwd) - k)

\* The working directory and its ancestors up to the one k levels above.
UpTo(k) == [i \in 1..(k + 1) |-> Anc(i - 1)]

\* The .git entry of a directory.
MarkerAt(dir) ==
    IF Append(dir, DotGit) \in DOMAIN fs THEN fs[Append(dir, DotGit)] ELSE NoEntry

NoMarkerAbove == \A k \in 0..Len(cwd) : MarkerAt(Anc(k)).kind = "none"

\* The ancestor k levels up is the nearest one with a .git entry.
Nearest(k) ==
    /\ MarkerAt(Anc(k)).kind # "none"
    /\ \A j \in 0..(k - 1) : MarkerAt(Anc(j)).kind = "none"

\* The walk has tested the working directory and its ancestors in order,
\* one level per step.
VisitedUpward ==
    /\ Len(visited) <= Len(cwd) + 1
    /\ \A i \in 1..Len(visited) : visited[i] = Anc(i - 1)

\* The walk is over and has found a .git.
MarkerFound == dir_iter.some /\ pc \notin {"git_walk", "git_locate"}

HexChars == {Hex16[i] : i \in 1..16}

StripNewline(s) ==
    IF s # <<>> /\ s[Len(s)] = "\n" THEN SubSeq(s, 1, Len(s) - 1) ELSE s

\* A line holding a revision id: at least 14 hex digits, then perhaps "\n".
IsIdLine(s) ==
    LET id == StripNewline(s)
    IN  Len(id) >= ShortLen /\ \A i \in 1..Len(id) : id[i] \in HexChars

TextAt(at) == IF at \in DOMAIN fs /\ fs[at].kind = "file" THEN Some(fs[at].text) ELSE None

\* The names of the ref a symbolic HEAD text points to.
RefNames(head) == Split(StripNewline(SubSeq(head, Len(REF_PREFIX) + 1, Len(head))), <<>>)

IsPlainName(n) ==
    n # <<>> /\ n # Dot /\ n # DotDot /\ \A i \in 1..Len(n) : ~IsWs(n[i]) /\ n[i] # EAcute

\* The metadata directory at base is that of a sound repository: HEAD is an
\* id line, or "ref: <path>\n" where <path> names an id line below base.
WellFormed(base) ==
    LET head == TextAt(Append(base, HeadName))
    IN  /\ head.some
        /\ \/ IsIdLine(head.v)
           \/ /\ StartsWith(head.v, REF_PREFIX)
              /\ \A i \in 1..Len(RefNames(head.v)) : IsPlainName(RefNames(head.v)[i])
              /\ TextAt(base \o RefNames(head.v)).some
              /\ IsIdLine(TextAt(base \o RefNames(head.v)).v)

\* What a sound repository at base is to be shown as.
Shown(base) ==
    LET head == TextAt(Append(base, HeadName)).v
        names == RefNames(head)
    IN  IF StartsWith(head, REF_PREFIX)
        THEN names[Len(names)] \o <<" ">> \o SubSeq(TextAt(base \o names).v, 1, ShortLen)
        ELSE SubSeq(head, 1, ShortLen)

\* The text that get_git_info slices: HEAD when it is detached, the ref file
\* when HEAD is symbolic and the ref file was read.
Symbolic == head_content.some /\ StartsWith(head_content.v, REF_PREFIX)
Detached == head_content.some /\ ~StartsWith(head_content.v, REF_PREFIX)
Sliced == IF Detached THEN head_content ELSE IF Symbolic THEN commit_hash ELSE None

\* The reference path of a symbolic HEAD, trimmed.
RefText == Trim(SubSeq(head_content.v, Len(REF_PREFIX) + 1, Len(head_content.v)))

\* The text after the last "/" of s.
LastSegment(s) == Split(s, <<>>)[Len(Split(s, <<>>))]

(***************************************************************************)
(* get_git_info: properties, checked under SpecGit                         *)
(***************************************************************************)
\* C1: when the text get_git_info slices (HEAD when detached, the ref file
\* when HEAD is symbolic) has fewer than 14 characters, get_git_info returns
\* an Err: it does not panic and does not return a text.
C1_ShortIdIsAnErr ==
    (GitEnded /\ Sliced.some /\ Len(Sliced.v) < ShortLen)
        => git_result.tag \in GitErrorTags

\* C2: when .git is a file "gitdir: <path>", the metadata directory that is
\* read is <path> trimmed when it is absolute, and <path> below the directory
\* that holds the .git file when it is relative.
C2_GitdirFromMarkerParent ==
    (MarkerFound /\ MarkerAt(dir_iter.v.comps).kind = "file"
                 /\ StartsWith(MarkerAt(dir_iter.v.comps).text, PREFIX))
        => LET text == MarkerAt(dir_iter.v.comps).text
               path == PathNew(Trim(SubSeq(text, Len(PREFIX) + 1, Len(text))))
           IN  Resolve(git_dir)
                   = Walk(IF path.abs THEN <<>> ELSE dir_iter.v.comps, path.comps)

\* C3: when neither the working directory nor any ancestor up to the root
\* has a .git entry, get_git_info returns NotGitRepo, having tested every
\* directory from the working directory up to the root, one level per step.
C3_NoMarkerIsNotGitRepo ==
    /\ (NoMarkerAbove /\ GitEnded /\ CwdOk)
          => (git_result = Err("NotGitRepo") /\ visited = UpTo(Len(cwd)))
    /\ (NoMarkerAbove /\ pc = "git_walk") => VisitedUpward

\* C3: the walk ran from the deepest directory to the root and found nothing.
C3_Witness ==
    /\ NoMarkerAbove
    /\ Len(cwd) = MaxDepth
    /\ git_result = Err("NotGitRepo")
    /\ Len(visited) = MaxDepth + 1

\* C4: when the nearest ancestor with a .git entry, k levels up, has a .git
\* directory of a sound repository, get_git_info succeeds with the text of
\* that repository; the walk tests the ancestors upward one level per step
\* and stops at the first that has a .git entry.
C4_NearestRepoAtAnyDepth ==
    /\ VisitedUpward
    /\ \A i \in 1..(Len(visited) - 1) : MarkerAt(visited[i]).kind = "none"
    /\ \A k \in 0..Len(cwd) :
          (/\ Nearest(k)
           /\ MarkerAt(Anc(k)).kind = "dir"
           /\ WellFormed(Append(Anc(k), DotGit))
           /\ GitEnded /\ CwdOk)
              => /\ visited = UpTo(k)
                 /\ output = Shown(Append(Anc(k), DotGit))
                 /\ git_result = Ok(GreenBold(output))

\* C4: a sound repository two levels or more above the working directory was
\* found and shown.
C4_Witness ==
    \E k \in 2..Len(cwd) :
        /\ Nearest(k)
        /\ MarkerAt(Anc(k)).kind = "dir"
        /\ WellFormed(Append(Anc(k), DotGit))
        /\ git_result.tag = "Ok"
        /\ Symbolic

\* C5: when .git is a readable file whose text does not start with
\* "gitdir: ", get_git_info returns UnexpectedGitContent, which is none of
\* ReadGitFile, ReadHead, ReadRef and NotGitRepo, and HEAD is not read.
C5_MalformedRedirect ==
    (MarkerFound /\ MarkerAt(dir_iter.v.comps).kind = "file"
                 /\ ~StartsWith(MarkerAt(dir_iter.v.comps).text, PREFIX))
        => /\ git_result = Err("UnexpectedGitContent")
           /\ git_result.tag \notin {"ReadGitFile", "ReadHead", "ReadRef", "NotGitRepo"}
           /\ ~head_content.some
           /\ opened = <<JoinName(dir_iter.v, DotGit)>>

\* C5: a .git file that says "Gitdir: /x" was refused.
C5_Witness ==
    /\ MarkerFound
    /\ MarkerAt(dir_iter.v.comps).kind = "file"
    /\ MarkerAt(dir_iter.v.comps).text # <<>>
    /\ git_result = Err("UnexpectedGitContent")

\* C6: when HEAD starts with "ref: " and the ref file holds a revision id of
\* at least 14 characters, the text is the last segment of the reference
\* path, a space, and the first 14 characters of the id.
C6_SymbolicHeadText ==
    (GitEnded /\ Symbolic /\ commit_hash.some /\ Len(TrimEnd(commit_hash.v)) >= ShortLen)
        => /\ git_result.tag = "Ok"
           /\ output = LastSegment(RefText) \o <<" ">> \o SubSeq(commit_hash.v, 1, ShortLen)

\* C7: when HEAD does not start with "ref: " and its trimmed text has at
\* least 14 characters, the text is the first 14 characters of the trimmed
\* text, and no ref file is read.
C7_DetachedHeadText ==
    (GitEnded /\ Detached /\ Len(Trim(head_content.v)) >= ShortLen)
        => /\ git_result.tag = "Ok"
           /\ output = SubSeq(Trim(head_content.v), 1, ShortLen)
           /\ ~commit_hash.some

\* C9: when HEAD is symbolic and its trimmed reference path has no final
\* segment that is a name, get_git_info returns NoRefName.
C9_NoRefName ==
    (GitEnded /\ Symbolic /\ ~FileName(PathNew(RefText)).some)
        => git_result = Err("NoRefName")

(***************************************************************************)
(* main: properties, checked under Spec                                    *)
(***************************************************************************)
RECURSIVE JoinWith(_, _)
JoinWith(v, sep) ==
    IF v = <<>> THEN <<>>
    ELSE IF Len(v) = 1 THEN v[1]
    ELSE v[1] \o sep \o JoinWith(Tail(v), sep)

IsOk(r) == r.tag = "Ok"

\* C8: whatever the repository on disk is, main reaches do_print and prints
\* the whole line: every probe was run, in the order of the vec, and the
\* texts of those that succeeded are printed in that order.
C8_MainAlwaysPrints ==
    /\ pc # "panicked"
    /\ pc = "done" =>
          /\ [i \in 1..Len(results) |-> results[i].probe] = ProbeOrder
          /\ LET oks == SelectSeq(results, IsOk)
             IN  printed = LeftCap
                           \o JoinWith([i \in 1..Len(oks) |-> oks[i].text], Separator)
                           \o RightCap

(***************************************************************************)
(* get_mercurial_info: properties, checked under SpecHg                    *)
(***************************************************************************)
NonEmpty(t) == t # <<>>

\* The trimmed text of a file of the repository found, empty when it cannot
\* be read.
HgText(name) ==
    LET t == TextAt(hg_root \o <<DotHg, name>>)
    IN  IF t.some THEN Trim(t.v) ELSE <<>>

\* C10: the text of get_mercurial_info is the non-empty ones among the
\* trimmed bookmark, the trimmed branch and the dirstate's hex, in that
\* order, with one space between two of them and none before or after; when
\* all are empty the result is the empty text, undecorated.
C10_HgTextIsJoined ==
    hg_result.tag = "Ok" =>
        LET parts == SelectSeq(<<HgText(BookmarksName), HgText(BranchName),
                                 DirstateHex(AbsDir(hg_root \o <<DotHg, DirstateName>>))>>,
                               NonEmpty)
        IN  /\ hg_output = JoinWith(parts, <<" ">>)
            /\ hg_result.text = IF parts = <<>> THEN <<>> ELSE GreenBold(hg_output)
====
